---- MODULE Spec2Model ----
(***************************************************************************)
(* A model of experiment/run_experiment.py: the launch of a fuzzer         *)
(* benchmarking experiment (main, start_experiment, start_dispatcher,      *)
(* copy_resources_to_bucket, the two dispatchers) together with the        *)
(* validators it runs first.                                               *)
(*                                                                         *)
(* Python values are records [t |-> type, v |-> text]: the text of a       *)
(* string is the sequence of its characters, so that lower(), startswith() *)
(* and the regular expressions are computed on the characters.             *)
(***************************************************************************)
EXTENDS Naturals, Sequences, FiniteSets, TLC

VARIABLES
    pc,                \* position of the main process
    outcome,           \* "running", "exit0", "exit1" or the exception that ended main
    env,               \* os.environ: MANUAL_EXPERIMENT, POSTGRES_PASSWORD, ...
    config_file,       \* content of the user's experiment config file
    config,            \* the config dict of start_experiment
    remaining,         \* required params the validation loop has not visited
    valid,             \* the validation flag
    errors,            \* what logs.error has reported
    experiment_name,   \* args.experiment_name
    benchmarks,        \* args.benchmarks
    fuzzer_configs,    \* the list given to set_up_fuzzer_config_files
    idx,               \* position of the loop over fuzzer_configs
    files,             \* local files: CONFIG_DIR and src.tar.gz
    dispatcher,        \* the dispatcher object: kind, process
    manual_experiment, \* the local of start_dispatcher
    remote             \* the remote side effects so far

vars == <<pc, outcome, env, config_file, config, remaining, valid, errors,
          experiment_name, benchmarks, fuzzer_configs, idx, files, dispatcher,
          manual_experiment, remote>>

----------------------------------------------------------------------------
(* Bounds of the model *)

MaxFuzzers == 2

----------------------------------------------------------------------------
(* Python values *)

StrV(s) == [t |-> "str", v |-> s]

IntV(s) == [t |-> "int", v |-> s]

BoolV(b) == [t |-> "bool", v |-> IF b THEN <<"T">> ELSE <<"F">>]

NoneV == [t |-> "none", v |-> <<>>]

DictV == [t |-> "dict", v |-> <<"k">>]

Absent == [t |-> "absent", v |-> <<>>]

Unset == [t |-> "unset", v |-> <<>>]

EmptyDict == [k \in {} |-> NoneV]

\* a dict from a record of options: the keys whose option is Absent are left out
Dict(r) == [k \in {k \in DOMAIN r : r[k] # Absent} |-> r[k]]

\* d.get(key, default)
Get(d, key, default) == IF key \in DOMAIN d THEN d[key] ELSE default

\* d[key] = value
Put(d, key, value) ==
    [k \in DOMAIN d \cup {key} |-> IF k = key THEN value ELSE d[k]]

\* bool(x) for the values of the model
Truthy(x) ==
    CASE x.t = "str" -> x.v # <<>>
      [] x.t = "int" -> x.v # <<"0">>
      [] x.t = "bool" -> x.v = <<"T">>
      [] x.t = "dict" -> x.v # <<>>
      [] OTHER -> FALSE

\* isinstance(x, int): bool is a subclass of int
IsInstanceInt(x) == x.t \in {"int", "bool"}

IsInstanceStr(x) == x.t = "str"

UpperCase == <<"A", "B", "C", "D", "E", "F", "G", "H", "I", "J", "K", "L", "M",
               "N", "O", "P", "Q", "R", "S", "T", "U", "V", "W", "X", "Y", "Z">>

LowerCase == <<"a", "b", "c", "d", "e", "f", "g", "h", "i", "j", "k", "l", "m",
               "n", "o", "p", "q", "r", "s", "t", "u", "v", "w", "x", "y", "z">>

Digits == {"0", "1", "2", "3", "4", "5", "6", "7", "8", "9"}

Range(s) == {s[i] : i \in DOMAIN s}

LowerChar(c) ==
    IF c \in Range(UpperCase)
    THEN LowerCase[CHOOSE i \in DOMAIN UpperCase : UpperCase[i] = c]
    ELSE c

\* str.lower()
Lower(s) == [i \in DOMAIN s |-> LowerChar(s[i])]

\* str.startswith(prefix)
StartsWith(s, prefix) ==
    /\ Len(s) >= Len(prefix)
    /\ \A i \in DOMAIN prefix : s[i] = prefix[i]

----------------------------------------------------------------------------
(* The order of the statements of each function.  A statement that is a    *)
(* call of one of these functions is entered at the callee's first         *)
(* statement and left after its last.                                      *)

StartDispatcherBodyStartFirst ==
    <<"get_dispatcher", "create_async", "start", "copy_resources_to_bucket">>

StartExperimentBodyDatabaseFirst ==
    <<"check_no_local_changes", "validate_experiment_name", "validate_benchmarks",
      "read_and_validate_experiment_config", "stamp_config",
      "set_up_experiment_config_file", "check_database",
      "set_up_fuzzer_config_files", "start_dispatcher">>

MainBody == <<"parse_args", "start_experiment", "stop_experiment">>

StartExperimentBody ==
    <<"check_no_local_changes", "validate_experiment_name", "validate_benchmarks",
      "read_and_validate_experiment_config", "stamp_config",
      "set_up_experiment_config_file", "set_up_fuzzer_config_files",
      "check_database", "start_dispatcher">>

StartDispatcherBody ==
    <<"get_dispatcher", "create_async", "copy_resources_to_bucket", "start">>

CopyResourcesBody == <<"set_environment", "tar", "cp", "remove", "rsync">>

BodyOf(s) ==
    CASE s = "start_experiment" -> StartExperimentBody
      [] s = "start_dispatcher" -> StartDispatcherBody
      [] s = "copy_resources_to_bucket" -> CopyResourcesBody
      [] OTHER -> <<>>

\* the function whose body holds statement s ("main" for the statements of main)
Caller(s) ==
    CASE s \in Range(StartExperimentBody) -> "start_experiment"
      [] s \in Range(StartDispatcherBody) -> "start_dispatcher"
      [] s \in Range(CopyResourcesBody) -> "copy_resources_to_bucket"
      [] OTHER -> "main"

IndexOf(body, s) == CHOOSE i \in DOMAIN body : body[i] = s

RECURSIVE Enter(_)
\* the position at which statement s begins
Enter(s) == IF BodyOf(s) = <<>> THEN s ELSE Enter(BodyOf(s)[1])

RECURSIVE After(_)
\* the position reached when statement s has completed
After(s) ==
    LET f == Caller(s)
        body == IF f = "main" THEN MainBody ELSE BodyOf(f)
        i == IndexOf(body, s)
    IN  IF i < Len(body) THEN Enter(body[i + 1])
        ELSE IF f = "main" THEN "exit" ELSE After(f)

\* an exception leaves every function: main catches nothing
Raise(exception) ==
    /\ pc' = "exit"
    /\ outcome' = exception

----------------------------------------------------------------------------
(* read_and_validate_experiment_config *)

FilestoreParams == {"experiment_filestore", "report_filestore"}

CloudConfig == {"cloud_compute_zone"}

StringParams == CloudConfig \cup FilestoreParams

IntParams == {"trials", "max_total_time"}

LegacyParams == {"cloud_experiment_bucket", "cloud_web_bucket"}

\* config.get('local_experiment', False)
LocalExperiment(cfg) == Get(cfg, "local_experiment", BoolV(FALSE))

RequiredParamsAlwaysCloud(cfg) == IntParams \cup FilestoreParams \cup CloudConfig

RequiredParams(cfg) ==
    IF ~Truthy(LocalExperiment(cfg))
    THEN (IntParams \cup FilestoreParams) \cup CloudConfig
    ELSE IntParams \cup FilestoreParams

GsPrefix == <<"g", "s", ":", "/", "/">>

\* one pass of the loop body for param: the error it logs, or "none"
ParamError(cfg, param) ==
    IF param \notin DOMAIN cfg THEN "missing"
    ELSE LET value == cfg[param] IN
        IF param \in IntParams /\ ~IsInstanceInt(value) THEN "not_int"
        ELSE IF param \in StringParams
                /\ (~IsInstanceStr(value) \/ value.v # Lower(value.v))
             THEN "not_lowercase_string"
        ELSE IF param \notin FilestoreParams THEN "none"
        ELSE IF Truthy(LocalExperiment(cfg)) /\ ~StartsWith(value.v, <<"/">>)
             THEN "not_posix"
        ELSE IF ~Truthy(LocalExperiment(cfg)) /\ ~StartsWith(value.v, GsPrefix)
             THEN "not_gs"
        ELSE "none"

ReadConfig ==
    /\ pc = "read_and_validate_experiment_config"
    /\ config' = config_file
    /\ remaining' = RequiredParams(config_file)
    /\ valid' = TRUE
    /\ errors' = IF DOMAIN config_file \cap LegacyParams # {}
                 THEN {[kind |-> "renamed", param |-> "cloud_experiment_bucket"]}
                 ELSE {}
    /\ pc' = "validate_loop"
    /\ UNCHANGED <<outcome, env, config_file, experiment_name, benchmarks,
                   fuzzer_configs, idx, files, dispatcher, manual_experiment, remote>>

ValidateParamStopAtFirst ==
    /\ pc = "validate_loop"
    /\ \E param \in remaining :
        LET e == ParamError(config, param) IN
        /\ valid' = IF e = "none" THEN valid ELSE FALSE
        /\ errors' = IF e = "none" THEN errors
                     ELSE errors \cup {[kind |-> e, param |-> param]}
        /\ remaining' = IF e = "none" THEN remaining \ {param} ELSE {}
    /\ UNCHANGED <<pc, outcome, env, config_file, config, experiment_name, benchmarks,
                   fuzzer_configs, idx, files, dispatcher, manual_experiment, remote>>

ValidateParam ==
    /\ pc = "validate_loop"
    /\ \E param \in remaining :
        LET e == ParamError(config, param) IN
        /\ valid' = IF e = "none" THEN valid ELSE FALSE
        /\ errors' = IF e = "none" THEN errors
                     ELSE errors \cup {[kind |-> e, param |-> param]}
        /\ remaining' = remaining \ {param}
    /\ UNCHANGED <<pc, outcome, env, config_file, config, experiment_name, benchmarks,
                   fuzzer_configs, idx, files, dispatcher, manual_experiment, remote>>

ValidateFinish ==
    /\ pc = "validate_loop"
    /\ remaining = {}
    /\ IF ~valid
       THEN Raise("ValidationError")
       ELSE /\ pc' = After("read_and_validate_experiment_config")
            /\ UNCHANGED outcome
    /\ UNCHANGED <<env, config_file, config, remaining, valid, errors,
                   experiment_name, benchmarks, fuzzer_configs, idx, files,
                   dispatcher, manual_experiment, remote>>

----------------------------------------------------------------------------
(* The experiment config files the model draws from *)

GsBucket == <<"g", "s", ":", "/", "/", "b">>

GsBucketUpper == <<"g", "s", ":", "/", "/", "B">>

PosixDir == <<"/", "d">>

PosixDirUpper == <<"/", "D">>

RelativeDir == <<"d">>

\* every combination of present, absent, well-formed and malformed values of
\* the keys that validation reads
ValidateConfigs ==
    {Dict(r) : r \in
        [trials : {Absent, IntV(<<"5">>), StrV(<<"5">>), BoolV(TRUE)},
         max_total_time : {Absent, IntV(<<"9">>), NoneV},
         experiment_filestore : {Absent, StrV(GsBucket), StrV(GsBucketUpper),
                                 StrV(PosixDir), StrV(PosixDirUpper),
                                 StrV(RelativeDir), IntV(<<"5">>)},
         report_filestore : {Absent, StrV(GsBucket), StrV(PosixDir), NoneV},
         cloud_compute_zone : {Absent, StrV(<<"z">>), StrV(<<"Z">>)},
         local_experiment : {Absent, BoolV(TRUE), BoolV(FALSE), IntV(<<"1">>)},
         cloud_experiment_bucket : {Absent, StrV(GsBucket)},
         cloud_web_bucket : {Absent, StrV(GsBucket)}]}

\* CONFIG_DIR as an earlier launch left it, and no src.tar.gz
StaleFiles ==
    [experiment_yaml |-> {},
     fuzzer_configs |-> {[name |-> <<"o", "l", "d">>, doc |-> EmptyDict]},
     archive |-> FALSE]

\* the variables of the launch before main has run a statement
Idle ==
    /\ outcome = "running"
    /\ config = EmptyDict
    /\ remaining = {}
    /\ valid = TRUE
    /\ errors = {}
    /\ experiment_name = <<>>
    /\ benchmarks = <<>>
    /\ dispatcher = [kind |-> "none", process |-> "none", created |-> FALSE,
                     start |-> "not_called"]
    /\ manual_experiment = Unset
    /\ remote = [project |-> FALSE, archive |-> FALSE, config |-> {},
                 instance |-> FALSE, ssh |-> FALSE, container |-> FALSE,
                 stop |-> FALSE]

\* validation alone, of every config file of ValidateConfigs
InitValidate ==
    /\ pc = "read_and_validate_experiment_config"
    /\ env = [MANUAL_EXPERIMENT |-> Unset, POSTGRES_PASSWORD |-> Unset,
              EXPERIMENT_FILESTORE |-> Unset, EXPERIMENT |-> Unset]
    /\ config_file \in ValidateConfigs
    /\ fuzzer_configs = <<>>
    /\ idx = 0
    /\ files = StaleFiles
    /\ Idle

NextValidate ==
    \/ ReadConfig
    \/ ValidateParam
    \/ ValidateFinish

SpecValidate == InitValidate /\ [][NextValidate]_vars

----------------------------------------------------------------------------
(* The name validators *)

MaxExperimentNameLen == 30

\* re.match(FUZZER_NAME_REGEX, s): ^[a-z0-9_]+$
MatchesFuzzerNameRegex(s) ==
    /\ Len(s) >= 1
    /\ Range(s) \subseteq (Range(LowerCase) \cup Digits \cup {"_"})

\* re.match(EXPERIMENT_CONFIG_REGEX, s): ^[a-z0-9-]{0,30}$
MatchesExperimentConfigRegex(s) ==
    /\ Len(s) <= MaxExperimentNameLen
    /\ Range(s) \subseteq (Range(LowerCase) \cup Digits \cup {"-"})

Afl == <<"a", "f", "l">>

AflV2 == <<"a", "f", "l", "_", "v", "2">>

\* get_directories(FUZZERS_DIR): the fuzzers of the source tree
FuzzersDirectories == {Afl, AflV2, <<"h", "o", "n", "g">>}

\* validate_fuzzer(fuzzer): the exception it raises, or "none"
ValidateFuzzerError(fuzzer) ==
    IF ~IsInstanceStr(fuzzer) THEN "TypeError:re.match"
    ELSE IF ~MatchesFuzzerNameRegex(fuzzer.v) THEN "Exception:fuzzer_charset"
    ELSE IF fuzzer.v \notin FuzzersDirectories THEN "Exception:fuzzer_does_not_exist"
    ELSE "none"

AllowedFields == {"name", "env", "fuzzer"}

\* validate_fuzzer_config(fuzzer_config): the exception it raises, or "none"
ValidateFuzzerConfigError(fuzzer_config) ==
    LET name == Get(fuzzer_config, "name", NoneV)
        fuzzer == Get(fuzzer_config, "fuzzer", NoneV)
    IN  IF "fuzzer" \notin DOMAIN fuzzer_config THEN "Exception:fuzzer_field_missing"
        ELSE IF DOMAIN fuzzer_config \ AllowedFields # {} THEN "Exception:invalid_entry"
        ELSE IF "env" \in DOMAIN fuzzer_config /\ fuzzer_config["env"].t # "dict"
             THEN "Exception:env_not_dict"
        ELSE IF Truthy(name) /\ ~IsInstanceStr(name) THEN "TypeError:re.match"
        ELSE IF Truthy(name) /\ ~MatchesFuzzerNameRegex(name.v)
             THEN "Exception:name_charset"
        ELSE IF Truthy(fuzzer) THEN ValidateFuzzerError(fuzzer)
        ELSE "none"

\* get_full_fuzzer_name(fuzzer_config): a str value, or NoneV where the
\* concatenation (or the path join that follows) raises TypeError
GetFullFuzzerName(fuzzer_config) ==
    IF "name" \notin DOMAIN fuzzer_config
    THEN (IF IsInstanceStr(fuzzer_config["fuzzer"]) THEN fuzzer_config["fuzzer"]
          ELSE NoneV)
    ELSE IF IsInstanceStr(fuzzer_config["fuzzer"]) /\ IsInstanceStr(fuzzer_config["name"])
         THEN StrV(fuzzer_config["fuzzer"].v \o <<"_">> \o fuzzer_config["name"].v)
         ELSE NoneV

\* validate_experiment_name
ExperimentNameError(name) ==
    IF ~MatchesExperimentConfigRegex(name) THEN "Exception:experiment_name" ELSE "none"

\* validate_benchmarks: some benchmark is counted more than once
BenchmarksError(list) ==
    IF \E i, j \in DOMAIN list : i # j /\ list[i] = list[j]
    THEN "Exception:duplicate_benchmark"
    ELSE "none"

RECURSIVE Join(_)
\* ','.join(list)
Join(list) ==
    IF list = <<>> THEN <<>>
    ELSE IF Len(list) = 1 THEN list[1]
    ELSE list[1] \o <<",">> \o Join(Tail(list))

----------------------------------------------------------------------------
(* main and start_experiment *)

BenchmarkLists ==
    {<<(<<"a">>)>>, <<(<<"a">>), (<<"b">>)>>, <<(<<"a">>), (<<"a">>)>>,
     <<(<<"a">>), (<<"b">>), (<<"a">>)>>}

ExperimentNames ==
    {<<"e", "-", "1">>, <<"E">>, [i \in 1..(MaxExperimentNameLen + 1) |-> "e"]}

\* fuzzer config documents the launch draws from
LaunchFuzzerConfigs ==
    {Dict(r) : r \in
        {[fuzzer |-> StrV(Afl), name |-> Absent],
         [fuzzer |-> StrV(Afl), name |-> StrV(<<"v", "2">>)],
         [fuzzer |-> StrV(AflV2), name |-> Absent],
         [fuzzer |-> StrV(Afl), name |-> StrV(<<>>)],
         [fuzzer |-> StrV(<<"A", "F", "L">>), name |-> Absent],
         [fuzzer |-> Absent, name |-> StrV(<<"v", "2">>)]}}

FuzzerConfigLists ==
    UNION {[1..n -> LaunchFuzzerConfigs] : n \in 0..MaxFuzzers}

\* main up to the call of start_experiment: with --changed-fuzzers and no
\* fuzzer changed, main returns 1
ParseArgs ==
    /\ pc = "parse_args"
    /\ \/ /\ pc' = "exit"
          /\ outcome' = "exit1"
       \/ /\ pc' = After("parse_args")
          /\ UNCHANGED outcome
    /\ UNCHANGED <<env, config_file, config, remaining, valid, errors,
                   experiment_name, benchmarks, fuzzer_configs, idx, files,
                   dispatcher, manual_experiment, remote>>

CheckNoLocalChanges ==
    /\ pc = "check_no_local_changes"
    /\ \E git_diff_empty \in BOOLEAN :
        IF ~git_diff_empty
        THEN Raise("AssertionError")
        ELSE /\ pc' = After("check_no_local_changes")
             /\ UNCHANGED outcome
    /\ UNCHANGED <<env, config_file, config, remaining, valid, errors,
                   experiment_name, benchmarks, fuzzer_configs, idx, files,
                   dispatcher, manual_experiment, remote>>

ValidateExperimentName ==
    /\ pc = "validate_experiment_name"
    /\ \E name \in ExperimentNames :
        /\ experiment_name' = name
        /\ IF ExperimentNameError(name) # "none"
           THEN Raise(ExperimentNameError(name))
           ELSE /\ pc' = After("validate_experiment_name")
                /\ UNCHANGED outcome
    /\ UNCHANGED <<env, config_file, config, remaining, valid, errors,
                   benchmarks, fuzzer_configs, idx, files, dispatcher,
                   manual_experiment, remote>>

ValidateBenchmarks ==
    /\ pc = "validate_benchmarks"
    /\ \E list \in BenchmarkLists :
        /\ benchmarks' = list
        /\ IF BenchmarksError(list) # "none"
           THEN Raise(BenchmarksError(list))
           ELSE /\ pc' = After("validate_benchmarks")
                /\ UNCHANGED outcome
    /\ UNCHANGED <<env, config_file, config, remaining, valid, errors,
                   experiment_name, fuzzer_configs, idx, files, dispatcher,
                   manual_experiment, remote>>

StampConfig ==
    /\ pc = "stamp_config"
    /\ config' = Put(Put(Put(config, "benchmarks", StrV(Join(benchmarks))),
                         "experiment", StrV(experiment_name)),
                     "git_hash", StrV(<<"h">>))
    /\ pc' = After("stamp_config")
    /\ UNCHANGED <<outcome, env, config_file, remaining, valid, errors,
                   experiment_name, benchmarks, fuzzer_configs, idx, files,
                   dispatcher, manual_experiment, remote>>

\* recreate_directory(CONFIG_DIR) removes what the directory held
SetUpExperimentConfigFile ==
    /\ pc = "set_up_experiment_config_file"
    /\ files' = [files EXCEPT !.experiment_yaml = {config}, !.fuzzer_configs = {}]
    /\ pc' = After("set_up_experiment_config_file")
    /\ UNCHANGED <<outcome, env, config_file, config, remaining, valid, errors,
                   experiment_name, benchmarks, fuzzer_configs, idx, dispatcher,
                   manual_experiment, remote>>

SetUpFuzzerConfigFiles ==
    /\ pc = "set_up_fuzzer_config_files"
    /\ \E list \in FuzzerConfigLists :
        /\ fuzzer_configs' = list
        /\ IF list = <<>>
           THEN /\ Raise("Exception:no_fuzzers")
                /\ UNCHANGED <<files, idx>>
           ELSE /\ files' = [files EXCEPT !.fuzzer_configs = {}]
                /\ idx' = 1
                /\ pc' = "fuzzer_config_loop"
                /\ UNCHANGED outcome
    /\ UNCHANGED <<env, config_file, config, remaining, valid, errors,
                   experiment_name, benchmarks, dispatcher, manual_experiment,
                   remote>>

\* yaml_utils.write(config_file_name, fuzzer_config): a file of that name is
\* replaced
WriteFile(dir, name, doc) ==
    {f \in dir : f.name # name} \cup {[name |-> name, doc |-> doc]}

\* one pass of the loop of set_up_fuzzer_config_files
FuzzerConfigStep ==
    /\ pc = "fuzzer_config_loop"
    /\ idx \in DOMAIN fuzzer_configs
    /\ LET fuzzer_config == fuzzer_configs[idx]
           e == ValidateFuzzerConfigError(fuzzer_config)
           name == GetFullFuzzerName(fuzzer_config)
       IN  IF e # "none"
           THEN Raise(e) /\ UNCHANGED <<files, idx>>
           ELSE IF name = NoneV
           THEN Raise("TypeError:get_full_fuzzer_name") /\ UNCHANGED <<files, idx>>
           ELSE IF name.v = <<>>
           THEN Raise("IsADirectoryError") /\ UNCHANGED <<files, idx>>
           ELSE /\ files' = [files EXCEPT !.fuzzer_configs =
                                WriteFile(@, name.v, fuzzer_config)]
                /\ idx' = idx + 1
                /\ pc' = IF idx = Len(fuzzer_configs)
                         THEN After("set_up_fuzzer_config_files")
                         ELSE pc
                /\ UNCHANGED outcome
    /\ UNCHANGED <<env, config_file, config, remaining, valid, errors,
                   experiment_name, benchmarks, fuzzer_configs, dispatcher,
                   manual_experiment, remote>>

CheckDatabaseNoPasswordCheck ==
    /\ pc = "check_database"
    /\ IF ~Truthy(LocalExperiment(config))
       THEN IF "cloud_project" \notin DOMAIN config
            THEN Raise("KeyError") /\ UNCHANGED remote
            ELSE /\ remote' = [remote EXCEPT !.project = TRUE]
                 /\ pc' = After("check_database")
                 /\ UNCHANGED outcome
       ELSE /\ pc' = After("check_database")
            /\ UNCHANGED <<outcome, remote>>
    /\ UNCHANGED <<env, config_file, config, remaining, valid, errors,
                   experiment_name, benchmarks, fuzzer_configs, idx, files,
                   dispatcher, manual_experiment>>

\* "Make sure we can connect to database."
CheckDatabase ==
    /\ pc = "check_database"
    /\ IF ~Truthy(LocalExperiment(config))
       THEN IF env.POSTGRES_PASSWORD = Unset
            THEN Raise("Exception:POSTGRES_PASSWORD") /\ UNCHANGED remote
            ELSE IF "cloud_project" \notin DOMAIN config
            THEN Raise("KeyError") /\ UNCHANGED remote
            ELSE /\ remote' = [remote EXCEPT !.project = TRUE]
                 /\ pc' = After("check_database")
                 /\ UNCHANGED outcome
       ELSE /\ pc' = After("check_database")
            /\ UNCHANGED <<outcome, remote>>
    /\ UNCHANGED <<env, config_file, config, remaining, valid, errors,
                   experiment_name, benchmarks, fuzzer_configs, idx, files,
                   dispatcher, manual_experiment>>

----------------------------------------------------------------------------
(* start_dispatcher, the dispatchers and copy_resources_to_bucket *)

DispatcherKindIfKeyPresent(cfg) ==
    IF "local_experiment" \in DOMAIN cfg THEN "local" ELSE "cloud"

\* get_dispatcher: if config.get('local_experiment')
DispatcherKind(cfg) ==
    IF Truthy(Get(cfg, "local_experiment", NoneV)) THEN "local" ELSE "cloud"

GetDispatcher ==
    /\ pc = "get_dispatcher"
    /\ dispatcher' = [kind |-> DispatcherKind(config), process |-> "none",
                      created |-> FALSE, start |-> "not_called"]
    /\ manual_experiment' = env.MANUAL_EXPERIMENT
    /\ pc' = After("get_dispatcher")
    /\ UNCHANGED <<outcome, env, config_file, config, remaining, valid, errors,
                   experiment_name, benchmarks, fuzzer_configs, idx, files, remote>>

\* if not manual_experiment: dispatcher.create_async()
CreateAsync ==
    /\ pc = "create_async"
    /\ dispatcher' =
        IF Truthy(manual_experiment) THEN dispatcher
        ELSE IF dispatcher.kind = "cloud"
        THEN [dispatcher EXCEPT !.created = TRUE, !.process = "started"]
        ELSE [dispatcher EXCEPT !.created = TRUE]
    /\ pc' = After("create_async")
    /\ UNCHANGED <<outcome, env, config_file, config, remaining, valid, errors,
                   experiment_name, benchmarks, fuzzer_configs, idx, files,
                   manual_experiment, remote>>

\* the worker of create_async: gcloud.create_instance runs to its end
CreateInstance ==
    /\ dispatcher.process = "started"
    /\ dispatcher' = [dispatcher EXCEPT !.process = "terminated"]
    /\ \E created \in BOOLEAN : remote' = [remote EXCEPT !.instance = created]
    /\ UNCHANGED <<pc, outcome, env, config_file, config, remaining, valid, errors,
                   experiment_name, benchmarks, fuzzer_configs, idx, files,
                   manual_experiment>>

SetEnvironment ==
    /\ pc = "set_environment"
    /\ env' = [env EXCEPT !.EXPERIMENT_FILESTORE = config["experiment_filestore"],
                          !.EXPERIMENT = config["experiment"]]
    /\ pc' = After("set_environment")
    /\ UNCHANGED <<outcome, config_file, config, remaining, valid, errors,
                   experiment_name, benchmarks, fuzzer_configs, idx, files,
                   dispatcher, manual_experiment, remote>>

Tar ==
    /\ pc = "tar"
    /\ files' = [files EXCEPT !.archive = TRUE]
    /\ pc' = After("tar")
    /\ UNCHANGED <<outcome, env, config_file, config, remaining, valid, errors,
                   experiment_name, benchmarks, fuzzer_configs, idx, dispatcher,
                   manual_experiment, remote>>

\* filestore_utils.cp(source_archive, base_destination + '/')
Cp ==
    /\ pc = "cp"
    /\ \E uploaded \in BOOLEAN :
        IF uploaded
        THEN /\ remote' = [remote EXCEPT !.archive = files.archive]
             /\ pc' = After("cp")
             /\ UNCHANGED outcome
        ELSE /\ Raise("Exception:cp")
             /\ UNCHANGED remote
    /\ UNCHANGED <<env, config_file, config, remaining, valid, errors,
                   experiment_name, benchmarks, fuzzer_configs, idx, files,
                   dispatcher, manual_experiment>>

\* os.remove(source_archive)
Remove ==
    /\ pc = "remove"
    /\ files' = [files EXCEPT !.archive = FALSE]
    /\ pc' = After("remove")
    /\ UNCHANGED <<outcome, env, config_file, config, remaining, valid, errors,
                   experiment_name, benchmarks, fuzzer_configs, idx, dispatcher,
                   manual_experiment, remote>>

\* filestore_utils.rsync(config_dir, destination)
Rsync ==
    /\ pc = "rsync"
    /\ \E synced \in BOOLEAN :
        IF synced
        THEN /\ remote' = [remote EXCEPT !.config =
                              {[experiment_yaml |-> files.experiment_yaml,
                                fuzzer_configs |-> files.fuzzer_configs]}]
             /\ pc' = After("rsync")
             /\ UNCHANGED outcome
        ELSE /\ Raise("Exception:rsync")
             /\ UNCHANGED remote
    /\ UNCHANGED <<env, config_file, config, remaining, valid, errors,
                   experiment_name, benchmarks, fuzzer_configs, idx, files,
                   dispatcher, manual_experiment>>

\* if not manual_experiment: dispatcher.start()
Start ==
    /\ pc = "start"
    /\ IF Truthy(manual_experiment)
       THEN /\ pc' = After("start")
            /\ UNCHANGED dispatcher
       ELSE /\ dispatcher' = [dispatcher EXCEPT !.start = "called"]
            /\ pc' = IF dispatcher.kind = "local" THEN "local_start" ELSE "cloud_join"
    /\ UNCHANGED <<outcome, env, config_file, config, remaining, valid, errors,
                   experiment_name, benchmarks, fuzzer_configs, idx, files,
                   manual_experiment, remote>>

\* LocalDispatcher.start
LocalStart ==
    /\ pc = "local_start"
    /\ IF "cloud_project" \notin DOMAIN config
       THEN /\ Raise("KeyError")
            /\ dispatcher' = [dispatcher EXCEPT !.start = "raised"]
            /\ UNCHANGED remote
       ELSE \E launched \in BOOLEAN :
            IF launched
            THEN /\ remote' = [remote EXCEPT !.container = TRUE]
                 /\ dispatcher' = [dispatcher EXCEPT !.start = "returned"]
                 /\ pc' = After("start")
                 /\ UNCHANGED outcome
            ELSE /\ Raise("Exception:execute")
                 /\ dispatcher' = [dispatcher EXCEPT !.start = "raised"]
                 /\ UNCHANGED remote
    /\ UNCHANGED <<env, config_file, config, remaining, valid, errors,
                   experiment_name, benchmarks, fuzzer_configs, idx, files,
                   manual_experiment>>

CloudJoinNoWait ==
    /\ pc = "cloud_join"
    /\ IF dispatcher.process = "none"
       THEN /\ Raise("AttributeError")
            /\ dispatcher' = [dispatcher EXCEPT !.start = "raised"]
       ELSE /\ pc' = "cloud_ssh"
            /\ UNCHANGED <<outcome, dispatcher>>
    /\ UNCHANGED <<env, config_file, config, remaining, valid, errors,
                   experiment_name, benchmarks, fuzzer_configs, idx, files,
                   manual_experiment, remote>>

\* GoogleCloudDispatcher.start: self.process.join()
CloudJoin ==
    /\ pc = "cloud_join"
    /\ dispatcher.process # "started"
    /\ IF dispatcher.process = "none"
       THEN /\ Raise("AttributeError")
            /\ dispatcher' = [dispatcher EXCEPT !.start = "raised"]
       ELSE /\ pc' = "cloud_ssh"
            /\ UNCHANGED <<outcome, dispatcher>>
    /\ UNCHANGED <<env, config_file, config, remaining, valid, errors,
                   experiment_name, benchmarks, fuzzer_configs, idx, files,
                   manual_experiment, remote>>

\* gcloud.robust_begin_gcloud_ssh(instance_name, zone)
CloudSsh ==
    /\ pc = "cloud_ssh"
    /\ \E connected \in BOOLEAN :
        IF connected
        THEN /\ remote' = [remote EXCEPT !.ssh = TRUE]
             /\ pc' = "cloud_run"
             /\ UNCHANGED <<outcome, dispatcher>>
        ELSE /\ Raise("Exception:ssh")
             /\ dispatcher' = [dispatcher EXCEPT !.start = "raised"]
             /\ UNCHANGED remote
    /\ UNCHANGED <<env, config_file, config, remaining, valid, errors,
                   experiment_name, benchmarks, fuzzer_configs, idx, files,
                   manual_experiment>>

\* the rest of GoogleCloudDispatcher.start: the docker command run over ssh
CloudRun ==
    /\ pc = "cloud_run"
    /\ IF \/ "cloud_project" \notin DOMAIN config
          \/ "cloud_sql_instance_connection_name" \notin DOMAIN config
          \/ env.POSTGRES_PASSWORD = Unset
       THEN /\ Raise("KeyError")
            /\ dispatcher' = [dispatcher EXCEPT !.start = "raised"]
            /\ UNCHANGED remote
       ELSE \E launched \in BOOLEAN :
            IF launched
            THEN /\ remote' = [remote EXCEPT !.container = TRUE]
                 /\ dispatcher' = [dispatcher EXCEPT !.start = "returned"]
                 /\ pc' = After("start")
                 /\ UNCHANGED outcome
            ELSE /\ Raise("Exception:ssh")
                 /\ dispatcher' = [dispatcher EXCEPT !.start = "raised"]
                 /\ UNCHANGED remote
    /\ UNCHANGED <<env, config_file, config, remaining, valid, errors,
                   experiment_name, benchmarks, fuzzer_configs, idx, files,
                   manual_experiment>>

StopExperimentAlways ==
    /\ pc = "stop_experiment"
    /\ remote' = [remote EXCEPT !.stop = TRUE]
    /\ outcome' = "exit0"
    /\ pc' = After("stop_experiment")
    /\ UNCHANGED <<env, config_file, config, remaining, valid, errors,
                   experiment_name, benchmarks, fuzzer_configs, idx, files,
                   dispatcher, manual_experiment>>

\* the end of main: the stop request unless MANUAL_EXPERIMENT, and return 0
StopExperiment ==
    /\ pc = "stop_experiment"
    /\ remote' = IF ~Truthy(env.MANUAL_EXPERIMENT)
                 THEN [remote EXCEPT !.stop = TRUE]
                 ELSE remote
    /\ outcome' = "exit0"
    /\ pc' = After("stop_experiment")
    /\ UNCHANGED <<env, config_file, config, remaining, valid, errors,
                   experiment_name, benchmarks, fuzzer_configs, idx, files,
                   dispatcher, manual_experiment>>

----------------------------------------------------------------------------
(* The launch *)

LaunchConfigs ==
    {Dict(r) : r \in
        [trials : {IntV(<<"5">>)},
         max_total_time : {IntV(<<"9">>)},
         experiment_filestore : {StrV(GsBucket), StrV(PosixDir)},
         report_filestore : {StrV(GsBucket), StrV(PosixDir)},
         cloud_compute_zone : {Absent, StrV(<<"z">>)},
         local_experiment : {Absent, BoolV(TRUE), BoolV(FALSE), IntV(<<"1">>)},
         cloud_project : {Absent, StrV(<<"p">>)},
         cloud_sql_instance_connection_name : {StrV(<<"c">>)}]}

EnvValues == {Unset, StrV(<<>>), StrV(<<"1">>)}

Init ==
    /\ pc = Enter(MainBody[1])
    /\ env \in [MANUAL_EXPERIMENT : EnvValues,
                POSTGRES_PASSWORD : {Unset, StrV(<<"p", "w">>)},
                EXPERIMENT_FILESTORE : {Unset}, EXPERIMENT : {Unset}]
    /\ config_file \in LaunchConfigs
    /\ fuzzer_configs = <<>>
    /\ idx = 0
    /\ files = StaleFiles
    /\ Idle

Next ==
    \/ ParseArgs
    \/ CheckNoLocalChanges
    \/ ValidateExperimentName
    \/ ValidateBenchmarks
    \/ ReadConfig
    \/ ValidateParam
    \/ ValidateFinish
    \/ StampConfig
    \/ SetUpExperimentConfigFile
    \/ SetUpFuzzerConfigFiles
    \/ FuzzerConfigStep
    \/ CheckDatabase
    \/ GetDispatcher
    \/ CreateAsync
    \/ CreateInstance
    \/ SetEnvironment
    \/ Tar
    \/ Cp
    \/ Remove
    \/ Rsync
    \/ Start
    \/ LocalStart
    \/ CloudJoin
    \/ CloudSsh
    \/ CloudRun
    \/ StopExperiment

Spec == Init /\ [][Next]_vars

----------------------------------------------------------------------------
(* validate_fuzzer_config and the loop body on one fuzzer config document *)

FuzzerConfigs ==
    {Dict(r) : r \in
        [fuzzer : {Absent, StrV(Afl), StrV(AflV2), StrV(<<"A", "F", "L">>),
                   StrV(<<"z">>), StrV(<<>>), NoneV, IntV(<<"5">>)},
         name : {Absent, StrV(<<"v", "2">>), StrV(<<"V", "2">>), StrV(<<>>), NoneV,
                 IntV(<<"0">>), IntV(<<"7">>)},
         env : {Absent, DictV, StrV(<<"x">>)},
         bogus : {Absent, IntV(<<"1">>)}]}

InitFuzzerConfig ==
    /\ pc = "fuzzer_config_loop"
    /\ env = [MANUAL_EXPERIMENT |-> Unset, POSTGRES_PASSWORD |-> Unset,
              EXPERIMENT_FILESTORE |-> Unset, EXPERIMENT |-> Unset]
    /\ config_file = EmptyDict
    /\ fuzzer_configs \in {<<c>> : c \in FuzzerConfigs}
    /\ idx = 1
    /\ files = [StaleFiles EXCEPT !.fuzzer_configs = {}]
    /\ Idle

NextFuzzerConfig == FuzzerConfigStep

SpecFuzzerConfig == InitFuzzerConfig /\ [][NextFuzzerConfig]_vars

----------------------------------------------------------------------------
(* Properties *)

\* the files of CONFIG_DIR are written: experiment.yaml holds the config and
\* the loop over fuzzer_configs has written a file for every entry
ConfigFilesWritten ==
    /\ files.experiment_yaml = {config}
    /\ fuzzer_configs # <<>>
    /\ idx = Len(fuzzer_configs) + 1
    /\ \A i \in DOMAIN fuzzer_configs :
        \E f \in files.fuzzer_configs : f.name = GetFullFuzzerName(fuzzer_configs[i]).v

\* copy_resources_to_bucket has completed: archive uploaded, config dir synced
BundlingCompleted == remote.archive /\ remote.config # {}

\* C1: resource bundling does not begin until the experiment config file and
\* all fuzzer config files are written, and dispatcher.start() is not invoked
\* until copy_resources_to_bucket has completed (upload and sync both done).
C1_Ordering ==
    /\ pc \in Range(CopyResourcesBody) => ConfigFilesWritten
    /\ (remote.archive \/ remote.config # {}) => ConfigFilesWritten
    /\ dispatcher.start # "not_called" => BundlingCompleted

C1_Witness ==
    /\ dispatcher.start = "called"
    /\ dispatcher.kind = "cloud"
    /\ BundlingCompleted

FuzzerConfigAborts ==
    {"Exception:fuzzer_field_missing", "Exception:invalid_entry",
     "Exception:env_not_dict", "Exception:name_charset", "Exception:fuzzer_charset",
     "Exception:fuzzer_does_not_exist", "TypeError:re.match",
     "TypeError:get_full_fuzzer_name", "IsADirectoryError"}

PreconditionAborts ==
    {"AssertionError", "Exception:experiment_name", "Exception:duplicate_benchmark",
     "ValidationError", "Exception:no_fuzzers"} \cup FuzzerConfigAborts

NoRemoteSideEffect ==
    /\ ~remote.project
    /\ ~dispatcher.created
    /\ dispatcher.process = "none"
    /\ ~remote.instance
    /\ ~remote.archive
    /\ remote.config = {}
    /\ dispatcher.start = "not_called"
    /\ ~remote.ssh
    /\ ~remote.container
    /\ ~remote.stop

\* C2: when a launch aborts on a precondition violation (local changes, bad
\* experiment name, duplicate benchmark, invalid config, empty fuzzer list, an
\* invalid fuzzer config at any position), no remote side effect has occurred.
C2_AbortBeforeRemoteEffects ==
    outcome \in PreconditionAborts => NoRemoteSideEffect

\* the second entry of the list is the invalid one
C2_Witness ==
    /\ outcome \in FuzzerConfigAborts
    /\ idx = 2
    /\ Cardinality(files.fuzzer_configs) = 1
    /\ NoRemoteSideEffect

ValidationFinished == pc \notin {"read_and_validate_experiment_config", "validate_loop"}

\* C3: validation fails with ValidationError whenever the config contains
\* cloud_experiment_bucket or cloud_web_bucket, even if every other key is
\* present and well-formed.
C3_LegacyKeysRejected ==
    (ValidationFinished /\ DOMAIN config \cap LegacyParams # {})
        => outcome = "ValidationError"

\* the text begins with gs://
HasGsScheme(text) ==
    /\ Len(text) >= 5
    /\ <<text[1], text[2], text[3], text[4], text[5]>> = <<"g", "s", ":", "/", "/">>

\* the keys the claims call required
ClaimRequired(cfg) ==
    {"trials", "max_total_time", "experiment_filestore", "report_filestore"}
        \cup (IF Truthy(Get(cfg, "local_experiment", BoolV(FALSE)))
              THEN {}
              ELSE {"cloud_compute_zone"})

\* a required key of cfg that is missing, or not an int where an int is
\* required, or not a lowercase string where a string is required, or a
\* filestore whose scheme does not match the deployment mode
Offending(cfg, k) ==
    \/ k \notin DOMAIN cfg
    \/ /\ k \in DOMAIN cfg
       /\ \/ k \in {"trials", "max_total_time"} /\ cfg[k].t \notin {"int", "bool"}
          \/ /\ k \in {"experiment_filestore", "report_filestore", "cloud_compute_zone"}
             /\ (cfg[k].t # "str" \/ \E i \in DOMAIN cfg[k].v : cfg[k].v[i] \in Range(UpperCase))
          \/ /\ k \in {"experiment_filestore", "report_filestore"}
             /\ cfg[k].t = "str"
             /\ IF Truthy(Get(cfg, "local_experiment", BoolV(FALSE)))
                THEN cfg[k].v = <<>> \/ cfg[k].v[1] # "/"
                ELSE ~HasGsScheme(cfg[k].v)

\* C4: a config that lacks a required key (trials, max_total_time,
\* experiment_filestore, report_filestore, and cloud_compute_zone unless
\* local_experiment is true) fails with ValidationError and an error naming
\* the missing key is reported; a missing cloud_compute_zone is no error when
\* local_experiment is true.
C4_MissingKeyReported ==
    ValidationFinished =>
        /\ \A k \in ClaimRequired(config) :
            k \notin DOMAIN config =>
                /\ outcome = "ValidationError"
                /\ [kind |-> "missing", param |-> k] \in errors
        /\ Truthy(Get(config, "local_experiment", BoolV(FALSE))) =>
            /\ \A e \in errors : e.param # "cloud_compute_zone"
            /\ (\A k \in ClaimRequired(config) : ~Offending(config, k))
                    => outcome # "ValidationError"

C4_Witness ==
    /\ ValidationFinished
    /\ Get(config, "local_experiment", Absent) = IntV(<<"1">>)
    /\ "cloud_compute_zone" \notin DOMAIN config
    /\ "trials" \notin DOMAIN config
    /\ outcome = "ValidationError"
    /\ errors = {[kind |-> "missing", param |-> "trials"]}

\* C5: when validation raises ValidationError, every required key that is
\* missing, non-int, not a lowercase string, or of the wrong filestore scheme
\* has had an error reported for it, however many other keys are invalid and
\* in whatever order the keys are examined.
C5_AllProblemsReported ==
    outcome = "ValidationError" =>
        \A k \in ClaimRequired(config) :
            Offending(config, k) => \E e \in errors : e.param = k

\* five offending keys, five reports
C5_Witness ==
    /\ outcome = "ValidationError"
    /\ Cardinality({k \in ClaimRequired(config) : Offending(config, k)}) = 5
    /\ Cardinality({e.param : e \in errors} \ {"cloud_experiment_bucket"}) = 5

\* C6: after copy_resources_to_bucket finishes, by returning or by an upload
\* or sync failure propagating out of it, src.tar.gz no longer exists.
C6_NoArchiveLeftBehind ==
    (outcome \in {"Exception:cp", "Exception:rsync"} \/ remote.config # {})
        => ~files.archive

FilestoresMatch(cfg, kind) ==
    \A k \in {"experiment_filestore", "report_filestore"} :
        /\ k \in DOMAIN cfg
        /\ cfg[k].t = "str"
        /\ \A i \in DOMAIN cfg[k].v : cfg[k].v[i] \notin Range(UpperCase)
        /\ IF kind = "local"
           THEN cfg[k].v # <<>> /\ cfg[k].v[1] = "/"
           ELSE HasGsScheme(cfg[k].v)

\* C7: whenever a dispatcher's start() runs, both filestores of its config are
\* lowercase strings beginning with "/" if the Local variant was selected and
\* with "gs://" if the Cloud variant was selected: the scheme validation
\* enforced is the scheme of the variant get_dispatcher selects.
C7_FilestoresMatchVariant ==
    dispatcher.start # "not_called" =>
        /\ dispatcher.kind \in {"local", "cloud"}
        /\ FilestoresMatch(config, dispatcher.kind)

C7_Witness ==
    /\ dispatcher.start = "called"
    /\ dispatcher.kind = "cloud"
    /\ "local_experiment" \in DOMAIN config
    /\ FilestoresMatch(config, "cloud")


\* validate_fuzzer_config returned without raising on the entry at position i
Accepted(i) ==
    /\ i \in DOMAIN fuzzer_configs
    /\ \/ idx > i
       \/ idx = i /\ outcome \in {"TypeError:get_full_fuzzer_name", "IsADirectoryError"}

WellFormed(fuzzer_config) ==
    /\ "fuzzer" \in DOMAIN fuzzer_config
    /\ DOMAIN fuzzer_config \subseteq {"name", "env", "fuzzer"}
    /\ "env" \in DOMAIN fuzzer_config => fuzzer_config["env"].t = "dict"
    /\ "name" \in DOMAIN fuzzer_config =>
        /\ fuzzer_config["name"].t = "str"
        /\ fuzzer_config["name"].v # <<>>
        /\ \A i \in DOMAIN fuzzer_config["name"].v :
            fuzzer_config["name"].v[i] \in Range(LowerCase) \cup Digits \cup {"_"}
    /\ fuzzer_config["fuzzer"].t = "str"
    /\ fuzzer_config["fuzzer"].v # <<>>
    /\ \A i \in DOMAIN fuzzer_config["fuzzer"].v :
        fuzzer_config["fuzzer"].v[i] \in Range(LowerCase) \cup Digits \cup {"_"}
    /\ fuzzer_config["fuzzer"].v \in FuzzersDirectories

\* C8: every fuzzer config validate_fuzzer_config accepts has a fuzzer key, no
\* key outside {name, env, fuzzer}, a mapping for env if present, a name (if
\* present) matching ^[a-z0-9_]+$, and a fuzzer value that passes
\* validate_fuzzer, for every value of name and fuzzer, empty or null included.
C8_AcceptedConfigWellFormed ==
    \A i \in DOMAIN fuzzer_configs : Accepted(i) => WellFormed(fuzzer_configs[i])

\* set_up_fuzzer_config_files has completed successfully
FuzzerConfigFilesCompleted ==
    /\ pc # "fuzzer_config_loop"
    /\ fuzzer_configs # <<>>
    /\ idx = Len(fuzzer_configs) + 1

\* C9: when set_up_fuzzer_config_files completes successfully, no two entries
\* of the list resolve to the same full name, so the fuzzer-configs directory
\* holds exactly one file per entry, each holding that entry's document; an
\* empty list never completes successfully.
C9_UniqueFullNames ==
    /\ FuzzerConfigFilesCompleted =>
        /\ \A i, j \in DOMAIN fuzzer_configs :
            i # j => GetFullFuzzerName(fuzzer_configs[i])
                        # GetFullFuzzerName(fuzzer_configs[j])
        /\ Cardinality(files.fuzzer_configs) = Len(fuzzer_configs)
        /\ \A i \in DOMAIN fuzzer_configs :
            [name |-> GetFullFuzzerName(fuzzer_configs[i]).v,
             doc |-> fuzzer_configs[i]] \in files.fuzzer_configs
    /\ (fuzzer_configs = <<>> /\ pc \notin Range(StartExperimentBody)
            /\ pc # "validate_loop" /\ pc # "parse_args")
        => outcome # "running" /\ outcome # "exit0"

ManualUnset == env.MANUAL_EXPERIMENT = Unset

\* C10: a stop-experiment request is issued in a run of main if and only if
\* MANUAL_EXPERIMENT is unset and the launch succeeded, and only after
\* dispatcher.start() has returned; when MANUAL_EXPERIMENT is set, none of
\* create_async, start or stop-experiment is invoked, while resource bundling
\* still takes place.
C10_StopIffNotManual ==
    /\ remote.stop => ManualUnset /\ outcome = "exit0" /\ dispatcher.start = "returned"
    /\ (pc = "exit" /\ outcome = "exit0" /\ ManualUnset) => remote.stop
    /\ ~ManualUnset =>
        /\ ~dispatcher.created
        /\ dispatcher.start = "not_called"
        /\ ~remote.stop
        /\ outcome = "exit0" => BundlingCompleted

ManualEmptyOrUnset ==
    \/ env.MANUAL_EXPERIMENT = Unset
    \/ env.MANUAL_EXPERIMENT.v = <<>>

\* C10 (amended): the same with "MANUAL_EXPERIMENT unset" read as "unset or
\* set to the empty string", and "set" as "set to a non-empty string".
C10_StopIffManualEmpty ==
    /\ remote.stop =>
        ManualEmptyOrUnset /\ outcome = "exit0" /\ dispatcher.start = "returned"
    /\ (pc = "exit" /\ outcome = "exit0" /\ ManualEmptyOrUnset) => remote.stop
    /\ ~ManualEmptyOrUnset =>
        /\ ~dispatcher.created
        /\ dispatcher.start = "not_called"
        /\ ~remote.stop
        /\ outcome = "exit0" => BundlingCompleted

\* MANUAL_EXPERIMENT is set, to the empty string, and the launch ran in full
C10_Witness ==
    /\ env.MANUAL_EXPERIMENT = StrV(<<>>)
    /\ remote.stop
    /\ dispatcher.start = "returned"
    /\ outcome = "exit0"


\* the launch is of a local experiment, as start_experiment decides it
LocalLaunch == Truthy(Get(config_file, "local_experiment", BoolV(FALSE)))

PasswordUnset == env.POSTGRES_PASSWORD = Unset

\* the main process is inside GoogleCloudDispatcher.start
InCloudStart == pc \in {"cloud_join", "cloud_ssh", "cloud_run"}

\* C11: in a non-local launch with POSTGRES_PASSWORD not set, the launch
\* aborts before the cloud project switch, create_async and any upload, so
\* GoogleCloudDispatcher.start is never reached with the variable unset; in a
\* local launch the variable is not required and its absence aborts nothing.
C11_PasswordCheckedBeforeProvisioning ==
    /\ (~LocalLaunch /\ PasswordUnset) =>
        /\ NoRemoteSideEffect
        /\ dispatcher.kind = "none"
        /\ outcome \notin {"exit0", "KeyError"}
    /\ InCloudStart => ~PasswordUnset
    /\ (LocalLaunch /\ PasswordUnset) =>
        /\ outcome # "Exception:POSTGRES_PASSWORD"
        /\ outcome = "KeyError" => "cloud_project" \notin DOMAIN config

\* the non-local launch has written its config files and aborts on the check
C11_Witness ==
    /\ ~LocalLaunch
    /\ PasswordUnset
    /\ outcome = "Exception:POSTGRES_PASSWORD"
    /\ ConfigFilesWritten
    /\ "cloud_project" \in DOMAIN config
    /\ NoRemoteSideEffect


\* the main process is on the bundling path: inside copy_resources_to_bucket
Bundling == pc \in Range(CopyResourcesBody)

\* what holds of the Cloud dispatcher in every state
WorkerJoinedBeforeStart ==
    dispatcher.kind = "cloud" =>
        /\ dispatcher.start # "not_called" =>
            dispatcher.created /\ dispatcher.process # "none"
        /\ pc = "cloud_join" => dispatcher.process # "none"
        /\ outcome # "AttributeError"
        /\ (pc \in {"cloud_ssh", "cloud_run"} \/ remote.ssh \/ remote.container) =>
            dispatcher.process = "terminated"

\* C12: for the Cloud dispatcher, create_async starts the provisioning worker
\* and returns without waiting for it (the main path goes on to bundling with
\* the worker still running); start() is only called after create_async has
\* created the worker, the handle is never unset when joined, and the ssh
\* connectivity check and the container launch happen only after the worker
\* has terminated.
C12_ProvisioningJoinedBeforeStart ==
    [][/\ WorkerJoinedBeforeStart'
       /\ (pc = "create_async" /\ pc' # pc /\ dispatcher'.created
                /\ dispatcher.kind = "cloud") =>
            /\ dispatcher'.process = "started"
            /\ pc' = Enter("copy_resources_to_bucket")
       /\ (dispatcher.process = "started" /\ dispatcher'.process = "terminated") =>
            pc' = pc]_vars

\* the worker is still provisioning while the main path is about to sync
C12_Witness ==
    /\ dispatcher.kind = "cloud"
    /\ dispatcher.process = "started"
    /\ pc = "rsync"
    /\ remote.archive

====
